---- MODULE Spec2Model ----
(***************************************************************************)
(* Bet settlement and bankroll ledger of the defensive betting UI.         *)
(*                                                                         *)
(* Money is counted in tenths of a currency unit (100.0 is 1000), so that  *)
(* the 0.70 cashout factor stays exact on whole-unit stakes and whole      *)
(* odds.  A JavaScript null / undefined / NaN is the empty sequence Nil,   *)
(* a present value v is <<v>>.  Serialized leg ids ("M1_HD") are           *)
(* sequences of one-character strings, so that the substring tests of the  *)
(* source are modelled as substring tests.                                 *)
(***************************************************************************)
EXTENDS Integers, Sequences, FiniteSets, TLC

VARIABLES
    bankroll,        \* BankrollContext state `bankroll` (Nil while loading)
    isLoading,       \* BankrollContext state `isLoading`
    stored,          \* the "bankroll" object store: Nil or <<balance>>
    bets,            \* the "betHistory" object store, keyed 1..Len(bets)
    betPlan,         \* App state `betPlan` shown by BetPlacementStep
    unresolvedBets,  \* MatchResultsEntry state `unresolvedBets` (ids)
    selectedBet,     \* MatchResultsEntry state `selectedBet` (id, 0 = none)
    cashoutScenario, \* EnhancedCashout state `cashoutScenario` (id or "none")
    selectedBets,    \* EnhancedCashout state `selectedBets` (leg ids)
    formMatches,     \* SolverForm state `matches`
    inFlight,        \* handlers suspended at an await (context captured)
    lastOp,          \* history: the last operation, its inputs and outcome
    audit,           \* history: per plan / per bet counters of money moves
    faults           \* history: number of storage writes that were rejected

vars == <<bankroll, isLoading, stored, bets, betPlan, unresolvedBets,
          selectedBet, cashoutScenario, selectedBets, formMatches, inFlight, lastOp,
          audit, faults>>

ledgerVars == <<bankroll, isLoading, stored>>
uiVars == <<betPlan, unresolvedBets, selectedBet, cashoutScenario, selectedBets,
           formMatches, inFlight>>

-----------------------------------------------------------------------------
(* Bounds of the model *)

MaxFaults == 1
MaxBankroll == 1300
MaxBets == 2
MaxCredits == 2
MaxMatchNo == 12
MaxLegs == 2
MaxFormMatches == 2
MaxInFlight == 1

(* Program constants *)

DefaultBankroll == 1000
CashoutFactorNum == 7
CashoutFactorDen == 10

-----------------------------------------------------------------------------
(* Values *)

Nil == <<>>
Some(v) == <<v>>
OrZero(x) == IF x = Nil THEN 0 ELSE x[1]

Max(a, b) == IF a >= b THEN a ELSE b

RECURSIVE SumOver(_, _)
SumOver(f, S) ==
    IF S = {} THEN 0
    ELSE LET x == CHOOSE y \in S : TRUE
         IN  f[x] + SumOver(f, S \ {x})

-----------------------------------------------------------------------------
(* Bankroll ledger: BankrollContext.jsx and the bankroll API of db.js.     *)
(* Each operator returns the in-memory balance, the stored balance and the *)
(* error thrown to the caller ("none" when the call returns normally).     *)
(* `fail` says whether the object store rejects the write.                 *)

Ledger(b, s, e) == [bankroll |-> b, stored |-> s, err |-> e]

getBankroll(s) == IF s = Nil THEN DefaultBankroll ELSE s[1]

adjustBankrollUnclamped(b, s, amount, fail) ==
    LET newBalance == OrZero(b) + amount
    IN  Ledger(Some(newBalance),
               IF fail THEN s ELSE Some(newBalance),
               IF fail THEN "PersistenceFailure" ELSE "none")

adjustBankrollResult(b, s, amount, fail) ==
    LET newBalance == Max(OrZero(b) + amount, 0)
    IN  Ledger(Some(newBalance),
               IF fail THEN s ELSE Some(newBalance),
               IF fail THEN "PersistenceFailure" ELSE "none")

setBalanceUnclamped(b, s, value, fail) ==
    Ledger(Some(value),
           IF fail THEN s ELSE Some(value),
           IF fail THEN "PersistenceFailure" ELSE "none")

setBalanceResult(b, s, value, fail) ==
    LET newBalance == Max(value, 0)
    IN  Ledger(Some(newBalance),
               IF fail THEN s ELSE Some(newBalance),
               IF fail THEN "PersistenceFailure" ELSE "none")

deductStakeNoFundsCheck(b, s, totalStake, fail) ==
    IF totalStake <= 0
    THEN Ledger(b, s, "Invalid stake amount")
    ELSE adjustBankrollResult(b, s, -totalStake, fail)

deductStakeResult(b, s, totalStake, fail) ==
    IF totalStake <= 0
    THEN Ledger(b, s, "Invalid stake amount")
    ELSE IF b # Nil /\ totalStake > b[1]
    THEN Ledger(b, s, "Insufficient bankroll")
    ELSE adjustBankrollResult(b, s, -totalStake, fail)

addWinningsAnySign(b, s, amount, fail) ==
    adjustBankrollResult(b, s, amount, fail)

addWinningsResult(b, s, amount, fail) ==
    IF amount <= 0
    THEN Ledger(b, s, "none")
    ELSE adjustBankrollResult(b, s, amount, fail)

recordResultResult(b, s, netAmount, fail) ==
    IF netAmount # 0
    THEN adjustBankrollResult(b, s, netAmount, fail)
    ELSE Ledger(b, s, "none")

(* The storage collaborator may reject a write, at most MaxFaults times.   *)
FailChoices == IF faults < MaxFaults THEN {FALSE, TRUE} ELSE {FALSE}
Faults(r) == IF r.err = "PersistenceFailure" THEN faults + 1 ELSE faults


-----------------------------------------------------------------------------
(* JavaScript string operations used on serialized leg ids *)

Digits == <<"0", "1", "2", "3", "4", "5", "6", "7", "8", "9">>
IsDigit(c) == \E i \in 1..10 : Digits[i] = c
DigitValue(c) == (CHOOSE i \in 1..10 : Digits[i] = c) - 1

(* s.includes(sub) *)
Includes(s, sub) ==
    \E i \in 1..(Len(s) - Len(sub) + 1) : SubSeq(s, i, i + Len(sub) - 1) = sub

(* s.split("_"): the sequence of the parts between the underscores *)
RECURSIVE Split(_)
Split(s) ==
    IF \A i \in 1..Len(s) : s[i] # "_"
    THEN <<s>>
    ELSE LET k == CHOOSE i \in 1..Len(s) :
                     s[i] = "_" /\ \A j \in 1..(i - 1) : s[j] # "_"
         IN  <<SubSeq(s, 1, k - 1)>> \o Split(SubSeq(s, k + 1, Len(s)))

(* s.replace("M", ""): drops the first "M" *)
ReplaceM(s) ==
    IF \A i \in 1..Len(s) : s[i] # "M"
    THEN s
    ELSE LET k == CHOOSE i \in 1..Len(s) :
                     s[i] = "M" /\ \A j \in 1..(i - 1) : s[j] # "M"
         IN  SubSeq(s, 1, k - 1) \o SubSeq(s, k + 1, Len(s))

(* parseInt(s): the number written by the leading digits, Nil (NaN) if none *)
RECURSIVE ParseDigits(_, _)
ParseDigits(s, acc) ==
    IF s = <<>> \/ ~IsDigit(Head(s)) THEN acc
    ELSE ParseDigits(Tail(s), 10 * acc + DigitValue(Head(s)))

ParseInt(s) ==
    IF s = <<>> \/ ~IsDigit(Head(s)) THEN Nil ELSE Some(ParseDigits(s, 0))

(* parseInt(betKey.split("_")[0].replace("M", "")) - 1, NaN - 1 being NaN *)
MatchIndexOf(betKey) ==
    LET n == ParseInt(ReplaceM(Split(betKey)[1]))
    IN  IF n = Nil THEN Nil ELSE Some(n[1] - 1)

(* betId.split("_")[1] (undefined when the id has no underscore) *)
BetTypeOf(betId) ==
    LET parts == Split(betId)
    IN  IF Len(parts) >= 2 THEN parts[2] ELSE Nil

(* matchResults[matchIndex] / bet.matches[matchIndex]: a results object    *)
(* with keys 0..n-1 is the sequence of its values; a missing key reads     *)
(* undefined, written "null" for a result and Nil for a match.             *)
InRange(idx, arr) == idx # Nil /\ idx[1] >= 0 /\ idx[1] < Len(arr)
ResultAt(matchResults, idx) ==
    IF InRange(idx, matchResults) THEN matchResults[idx[1] + 1] ELSE "null"
MatchAt(matches, idx) ==
    IF InRange(idx, matches) THEN Some(matches[idx[1] + 1]) ELSE Nil

(* parseFloat(x) || 1.0 on the quoted odds; an odds of 0 is a missing quote *)
Or1(x) == IF x = 0 THEN 1 ELSE x

-----------------------------------------------------------------------------
(* Settlement arithmetic of db.js *)

TotalStake(bet) == SumOver(bet.stakes, DOMAIN bet.stakes)

checkIfBetWonNoExclusion(betKey, result) ==
    IF result = "null" THEN FALSE
    ELSE IF Includes(betKey, <<"_", "H">>) THEN result = "H"
    ELSE IF Includes(betKey, <<"_", "D">>) THEN result = "D"
    ELSE IF Includes(betKey, <<"_", "A">>) THEN result = "A"
    ELSE FALSE

checkIfBetWon(betKey, result) ==
    IF result = "null" THEN FALSE
    ELSE IF /\ Includes(betKey, <<"_", "H">>)
            /\ ~Includes(betKey, <<"_", "H", "D">>)
            /\ ~Includes(betKey, <<"_", "H", "A">>)
    THEN result = "H"
    ELSE IF /\ Includes(betKey, <<"_", "D">>)
            /\ ~Includes(betKey, <<"_", "H", "D">>)
            /\ ~Includes(betKey, <<"_", "A", "D">>)
    THEN result = "D"
    ELSE IF /\ Includes(betKey, <<"_", "A">>)
            /\ ~Includes(betKey, <<"_", "A", "D">>)
            /\ ~Includes(betKey, <<"_", "H", "A">>)
    THEN result = "A"
    ELSE IF Includes(betKey, <<"_", "H", "D">>) THEN result \in {"H", "D"}
    ELSE IF Includes(betKey, <<"_", "A", "D">>) THEN result \in {"A", "D"}
    ELSE IF Includes(betKey, <<"_", "H", "A">>) THEN result \in {"H", "A"}
    ELSE FALSE

getBetOddsNoExclusion(bet, betKey) ==
    LET match == MatchAt(bet.matches, MatchIndexOf(betKey))
    IN  IF match = Nil THEN 1
        ELSE IF Includes(betKey, <<"_", "H">>) THEN Or1(match[1].home)
        ELSE IF Includes(betKey, <<"_", "D">>) THEN Or1(match[1].draw)
        ELSE IF Includes(betKey, <<"_", "A">>) THEN Or1(match[1].away)
        ELSE 1

getBetOdds(bet, betKey) ==
    LET match == MatchAt(bet.matches, MatchIndexOf(betKey))
    IN  IF match = Nil THEN 1
        ELSE IF /\ Includes(betKey, <<"_", "H">>)
                /\ ~Includes(betKey, <<"_", "H", "D">>)
                /\ ~Includes(betKey, <<"_", "H", "A">>)
        THEN Or1(match[1].home)
        ELSE IF /\ Includes(betKey, <<"_", "D">>)
                /\ ~Includes(betKey, <<"_", "H", "D">>)
                /\ ~Includes(betKey, <<"_", "A", "D">>)
        THEN Or1(match[1].draw)
        ELSE IF /\ Includes(betKey, <<"_", "A">>)
                /\ ~Includes(betKey, <<"_", "A", "D">>)
                /\ ~Includes(betKey, <<"_", "H", "A">>)
        THEN Or1(match[1].away)
        ELSE IF Includes(betKey, <<"_", "H", "D">>) THEN Or1(match[1].hd)
        ELSE IF Includes(betKey, <<"_", "A", "D">>) THEN Or1(match[1].ad)
        ELSE IF Includes(betKey, <<"_", "H", "A">>) THEN Or1(match[1].ha)
        ELSE 1

(* the payout of one leg under the entered results *)
LegPayout(bet, betKey, matchResults) ==
    IF checkIfBetWon(betKey, ResultAt(matchResults, MatchIndexOf(betKey)))
    THEN bet.stakes[betKey] * getBetOdds(bet, betKey)
    ELSE 0

GrossPayout(bet, matchResults) ==
    SumOver([k \in DOMAIN bet.stakes |-> LegPayout(bet, k, matchResults)],
            DOMAIN bet.stakes)

ActualNetFromZero(bet, matchResults) ==
    GrossPayout(bet, matchResults)

(* the actualNet computed by recordMatchResults *)
ActualNet(bet, matchResults) ==
    GrossPayout(bet, matchResults) - TotalStake(bet)

(* MatchResultsEntry.jsx: accumulator settlement *)
checkLegWon(sel, result) ==
    IF result = "null" THEN FALSE
    ELSE IF sel = <<"H">> THEN result = "H"
    ELSE IF sel = <<"D">> THEN result = "D"
    ELSE IF sel = <<"A">> THEN result = "A"
    ELSE IF sel = <<"H", "D">> THEN result \in {"H", "D"}
    ELSE IF sel = <<"A", "D">> THEN result \in {"A", "D"}
    ELSE IF sel = <<"H", "A">> THEN result \in {"H", "A"}
    ELSE FALSE

AccaStake(bet) ==
    IF <<"A", "C", "C", "A">> \in DOMAIN bet.stakes
    THEN bet.stakes[<<"A", "C", "C", "A">>] ELSE 0

calculateAccumulatorNetAnyLeg(bet, matchResults) ==
    LET selections == bet.accumulatorData[1].selections
        stakeAmount == AccaStake(bet)
        anyWon == \E idx \in DOMAIN selections :
                      checkLegWon(selections[idx],
                                  ResultAt(matchResults, Some(idx)))
    IN  IF anyWon
        THEN stakeAmount * bet.accumulatorData[1].totalOdds - stakeAmount
        ELSE -stakeAmount

calculateAccumulatorNet(bet, matchResults) ==
    LET selections == bet.accumulatorData[1].selections
        stakeAmount == AccaStake(bet)
        allWon == \A idx \in DOMAIN selections :
                      checkLegWon(selections[idx],
                                  ResultAt(matchResults, Some(idx)))
    IN  IF allWon
        THEN stakeAmount * bet.accumulatorData[1].totalOdds - stakeAmount
        ELSE -stakeAmount

-----------------------------------------------------------------------------
(* Cashout valuation of EnhancedCashout.jsx *)

Scenarios ==
    { [id |-> "expecting_draw", custom |-> FALSE, partial |-> 0,
       cashoutBets |-> {<<"H">>, <<"A">>, <<"H", "A">>}],
      [id |-> "expecting_home", custom |-> FALSE, partial |-> 0,
       cashoutBets |-> {<<"D">>, <<"A">>, <<"A", "D">>}],
      [id |-> "expecting_away", custom |-> FALSE, partial |-> 0,
       cashoutBets |-> {<<"H">>, <<"D">>, <<"H", "D">>}],
      [id |-> "no_draw", custom |-> FALSE, partial |-> 0,
       cashoutBets |-> {<<"D">>, <<"H", "D">>, <<"A", "D">>}],
      [id |-> "safe_exit", custom |-> FALSE, partial |-> 5,
       cashoutBets |-> {}],
      [id |-> "full_cashout", custom |-> FALSE, partial |-> 10,
       cashoutBets |-> {}],
      [id |-> "custom", custom |-> TRUE, partial |-> 0,
       cashoutBets |-> {}] }

ScenarioOf(id) == CHOOSE sc \in Scenarios : sc.id = id

getOddsForBet(match, betType) ==
    IF match = Nil THEN 1
    ELSE IF betType = <<"H">> THEN Or1(match[1].home)
    ELSE IF betType = <<"D">> THEN Or1(match[1].draw)
    ELSE IF betType = <<"A">> THEN Or1(match[1].away)
    ELSE IF betType = <<"H", "D">> THEN Or1(match[1].hd)
    ELSE IF betType = <<"A", "D">> THEN Or1(match[1].ad)
    ELSE IF betType = <<"H", "A">> THEN Or1(match[1].ha)
    ELSE 1

(* the leg ids of `individualStakes`: every stake but the ACCA stake of an *)
(* accumulator                                                             *)
IndividualStakes(bet) ==
    { betId \in DOMAIN bet.stakes :
        ~(bet.strategy = "accumulator" /\ betId = <<"A", "C", "C", "A">>) }

StakeOdds(bet, betId) ==
    getOddsForBet(MatchAt(bet.matches, MatchIndexOf(betId)), BetTypeOf(betId))

(* s.stake * s.odds * 0.7 *)
LiveValue(bet, betId) ==
    (bet.stakes[betId] * StakeOdds(bet, betId) * CashoutFactorNum)
        \div CashoutFactorDen

(* calculateScenarioValue, in thousandths of a unit so that the product of *)
(* the 0.7 factor and the fraction of a partial scenario stays exact: a    *)
(* stake in tenths times the odds times 7 (tenths of the factor) times the *)
(* fraction in tenths (10 for a strategic scenario).  Nil is null.         *)
calculateScenarioValueAllLegs(bet, sc) ==
    IF sc.custom THEN Nil
    ELSE LET part == IF sc.partial # 0 THEN sc.partial ELSE 10
         IN  Some(SumOver([betId \in IndividualStakes(bet) |->
                             bet.stakes[betId] * StakeOdds(bet, betId)
                               * CashoutFactorNum * part],
                          IndividualStakes(bet)))

calculateScenarioValue(bet, sc) ==
    IF sc.custom THEN Nil
    ELSE IF sc.partial # 0
    THEN Some(SumOver([betId \in IndividualStakes(bet) |->
                          bet.stakes[betId] * StakeOdds(bet, betId)
                            * CashoutFactorNum],
                      IndividualStakes(bet)) * sc.partial)
    ELSE Some(SumOver([betId \in IndividualStakes(bet) |->
                          bet.stakes[betId] * StakeOdds(bet, betId)
                            * CashoutFactorNum * 10],
                      { betId \in IndividualStakes(bet) :
                          BetTypeOf(betId) \in sc.cashoutBets }))

(* the legs handleScenarioSelect puts in `selectedBets` *)
ScenarioSelectionAll(bet, sc) ==
    IF sc.custom THEN {} ELSE IndividualStakes(bet)

ScenarioSelection(bet, sc) ==
    IF sc.custom THEN {}
    ELSE IF sc.partial # 0 THEN IndividualStakes(bet)
    ELSE { betId \in IndividualStakes(bet) : BetTypeOf(betId) \in sc.cashoutBets }

(* the amount executeCashout computes from `selectedBets` *)
SelectedValue(bet, selected) ==
    SumOver([betId \in selected |->
                IF betId \in IndividualStakes(bet)
                THEN LiveValue(bet, betId) ELSE 0], selected)

-----------------------------------------------------------------------------
(* The betHistory store of db.js *)

saveBetRecord(record) ==
    [record EXCEPT !.status = IF record.status = "undefined"
                              THEN "calculated" ELSE record.status,
                   !.applied = FALSE,
                   !.resolved = FALSE,
                   !.matchResults = Nil,
                   !.actualNet = Nil,
                   !.cashoutAmount = Nil]

getPlacedUnresolvedBets(store) ==
    { id \in 1..Len(store) : store[id].status = "placed" /\ ~store[id].resolved }

placeBetUpdate(bet) == [bet EXCEPT !.status = "placed"]

cashoutBetUpdateGross(bet, cashoutAmount) ==
    [bet EXCEPT !.status = "cashed_out",
                !.resolved = TRUE,
                !.cashoutAmount = Some(cashoutAmount),
                !.actualNet = Some(cashoutAmount)]

cashoutBetUpdate(bet, cashoutAmount) ==
    [bet EXCEPT !.status = "cashed_out",
                !.resolved = TRUE,
                !.cashoutAmount = Some(cashoutAmount),
                !.actualNet = Some(cashoutAmount - TotalStake(bet))]

recordMatchResultsReplace(bet, matchResults) ==
    [bet EXCEPT !.status = "resolved",
                !.resolved = TRUE,
                !.matchResults = Some(matchResults),
                !.actualNet = Some(ActualNet(bet, matchResults)),
                !.stakes = <<>>]

recordMatchResultsUpdate(bet, matchResults) ==
    [bet EXCEPT !.status = "resolved",
                !.resolved = TRUE,
                !.matchResults = Some(matchResults),
                !.actualNet = Some(ActualNet(bet, matchResults))]

-----------------------------------------------------------------------------
(* Bet plans handed to the placement steps *)

Match1 == [home |-> 2, draw |-> 3, away |-> 4, hd |-> 1, ad |-> 2, ha |-> 1]
Match2 == [home |-> 3, draw |-> 3, away |-> 2, hd |-> 2, ad |-> 1, ha |-> 1]

NewRecord(matches, stakes, strategy, accumulatorData) ==
    [matches |-> matches, stakes |-> stakes, strategy |-> strategy,
     accumulatorData |-> accumulatorData, status |-> "placed",
     applied |-> FALSE, resolved |-> FALSE, matchResults |-> Nil,
     actualNet |-> Nil, cashoutAmount |-> Nil]

PlanA ==
    NewRecord(<<Match1>>,
              (<<"M", "1", "_", "H">> :> 60) @@ (<<"M", "1", "_", "D">> :> 40),
              "single", Nil)

PlanC ==
    NewRecord(<<Match1>>,
              (<<"M", "1", "_", "H">> :> 50) @@ (<<"M", "1", "_", "D">> :> 50),
              "single", Nil)

PlanB ==
    NewRecord(<<Match1, Match2>>,
              (<<"A", "C", "C", "A">> :> 100),
              "accumulator",
              Some([selections |-> (0 :> <<"H">>) @@ (1 :> <<"A">>),
                    totalOdds |-> 5]))

SinglePlans == {PlanC}
AccumulatorPlans == {PlanB}

Results == {"H", "D", "A"}
ResultTuples(n) == [1..n -> Results \cup {"null"}]
CashoutAmounts == {-50, 0, 150}

-----------------------------------------------------------------------------
(* History of the last operation: its name, the bet record it was about    *)
(* (0 = none), the amount and the results it was given, and the error its  *)
(* caller saw ("none" = returned normally, "ignored" = the handler         *)
(* returned early without acting).                                         *)

Op(name, bet, amount, results, err) ==
    [name |-> name, bet |-> bet, amount |-> amount, results |-> results,
     err |-> err]

NoAudit == [deducted |-> 0, saved |-> 0, credits |-> <<>>, terminals |-> <<>>]

(* Inputs of the ledger operations, in tenths *)
LedgerAmounts == {-2000, -100, 0, 100, 450}
InitialBalances == {50}

-----------------------------------------------------------------------------
(* Ledger operations as called through the BankrollContext value *)

loadBankroll ==
    /\ isLoading
    /\ \E fail \in FailChoices :
          /\ bankroll' = IF fail THEN Some(DefaultBankroll)
                         ELSE Some(getBankroll(stored))
          /\ faults' = IF fail THEN faults + 1 ELSE faults
          /\ lastOp' = Op("loadBankroll", 0, 0, <<>>,
                          IF fail THEN "ReadFailure" ELSE "none")
    /\ isLoading' = FALSE
    /\ UNCHANGED <<stored, bets, uiVars, audit>>

LedgerCall(name, amount, r) ==
    /\ bankroll' = r.bankroll
    /\ stored' = r.stored
    /\ faults' = Faults(r)
    /\ lastOp' = Op(name, 0, amount, <<>>, r.err)
    /\ UNCHANGED <<isLoading, bets, uiVars, audit>>

adjustBankroll ==
    \E amount \in LedgerAmounts, fail \in FailChoices :
        /\ amount > 0 => OrZero(bankroll) <= MaxBankroll
        /\ LedgerCall("adjustBankroll", amount,
                      adjustBankrollResult(bankroll, stored, amount, fail))

setBalance ==
    \E value \in LedgerAmounts, fail \in FailChoices :
        LedgerCall("setBalance", value,
                   setBalanceResult(bankroll, stored, value, fail))

deductStake ==
    \E totalStake \in LedgerAmounts, fail \in FailChoices :
        LedgerCall("deductStake", totalStake,
                   deductStakeResult(bankroll, stored, totalStake, fail))

addWinnings ==
    \E amount \in LedgerAmounts, fail \in FailChoices :
        /\ amount > 0 => OrZero(bankroll) <= MaxBankroll
        /\ LedgerCall("addWinnings", amount,
                      addWinningsResult(bankroll, stored, amount, fail))

recordResult ==
    \E netAmount \in LedgerAmounts, fail \in FailChoices :
        /\ netAmount > 0 => OrZero(bankroll) <= MaxBankroll
        /\ LedgerCall("recordResult", netAmount,
                      recordResultResult(bankroll, stored, netAmount, fail))

-----------------------------------------------------------------------------
(* The ledger on its own: the provider is mounted and its operations are   *)
(* called in any order with any amounts.                                   *)

(* a match of the solver form: its id and the odds typed in (0: empty) *)
FormMatch(id) ==
    [id |-> id, home |-> 0, draw |-> 0, away |-> 0, hd |-> 0, ad |-> 0, ha |-> 0]

InitialMatches == <<FormMatch(<<"M", "1">>)>>

InitLedger ==
    /\ bankroll = Nil
    /\ isLoading = TRUE
    /\ stored \in {Nil} \cup {Some(v) : v \in InitialBalances}
    /\ bets = <<>>
    /\ betPlan = Nil
    /\ unresolvedBets = {}
    /\ selectedBet = 0
    /\ cashoutScenario = "none"
    /\ selectedBets = {}
    /\ formMatches = InitialMatches
    /\ inFlight = <<>>
    /\ lastOp = Op("mount", 0, 0, <<>>, "none")
    /\ audit = NoAudit
    /\ faults = 0

NextLedger ==
    \/ loadBankroll
    \/ adjustBankroll
    \/ setBalance
    \/ deductStake
    \/ addWinnings
    \/ recordResult

SpecLedger == InitLedger /\ [][NextLedger]_vars

-----------------------------------------------------------------------------
(* Placement: BetPlacementStep.jsx and AccumulatorBuilder.jsx *)

FailPoints == IF faults < MaxFaults THEN {"none", "bet", "bankroll"} ELSE {"none"}

Min(a, b) == IF a <= b THEN a ELSE b

(* deductStake, then saveBetRecord; an error of either is caught and shown *)
PlaceOutcome(plan, totalStake, fail) ==
    LET r == deductStakeResult(bankroll, stored, totalStake, fail = "bankroll")
    IN  IF r.err # "none"
        THEN [ledger |-> r, bets |-> bets, err |-> r.err]
        ELSE IF fail = "bet"
        THEN [ledger |-> r, bets |-> bets, err |-> "PersistenceFailure"]
        ELSE [ledger |-> r, bets |-> Append(bets, saveBetRecord(plan)),
              err |-> "none"]

Placed(name, plan, totalStake, out) ==
    /\ bankroll' = out.ledger.bankroll
    /\ stored' = out.ledger.stored
    /\ bets' = out.bets
    /\ faults' = IF out.err = "PersistenceFailure" THEN faults + 1 ELSE faults
    /\ lastOp' = Op(name, IF out.err = "none" THEN Len(out.bets) ELSE 0,
                    totalStake, <<>>, out.err)
    /\ audit' = [audit EXCEPT
                   !.deducted = IF name = "handlePlaceBets"
                                   /\ out.ledger.err = "none"
                                THEN @ + 1 ELSE @,
                   !.saved = IF name = "handlePlaceBets" /\ out.err = "none"
                             THEN @ + 1 ELSE @,
                   !.credits = IF out.err = "none" THEN Append(@, 0) ELSE @,
                   !.terminals = IF out.err = "none" THEN Append(@, {}) ELSE @]

(* App.jsx handlePlaceBets: the advisor step hands a plan to step 3 *)
setBetPlan ==
    /\ betPlan = Nil
    /\ \E plan \in SinglePlans : betPlan' = Some(plan)
    /\ audit' = [audit EXCEPT !.deducted = 0, !.saved = 0]
    /\ lastOp' = Op("setBetPlan", 0, 0, <<>>, "none")
    /\ UNCHANGED <<ledgerVars, bets, formMatches, inFlight, unresolvedBets,
                   selectedBet, cashoutScenario, selectedBets, faults>>

(* BetPlacementStep.jsx handlePlaceBets *)
handlePlaceBets ==
    /\ betPlan # Nil
    /\ Len(bets) < MaxBets
    /\ \E fail \in FailPoints :
          LET totalStake == TotalStake(betPlan[1])
          IN  Placed("handlePlaceBets", betPlan[1], totalStake,
                     PlaceOutcome(betPlan[1], totalStake, fail))
    /\ UNCHANGED <<isLoading, uiVars>>

(* App.jsx handlePlacementComplete: onComplete, 1.5 s after a placement or *)
(* at once from the back button                                            *)
handlePlacementComplete ==
    /\ betPlan # Nil
    /\ betPlan' = Nil
    /\ lastOp' = Op("handlePlacementComplete", 0, 0, <<>>, "none")
    /\ UNCHANGED <<ledgerVars, bets, formMatches, inFlight, unresolvedBets,
                   selectedBet, cashoutScenario, selectedBets, audit, faults>>

(* AccumulatorBuilder.jsx handlePlaceBet *)
handlePlaceBet ==
    /\ Len(bets) < MaxBets
    /\ \E plan \in AccumulatorPlans, fail \in FailPoints :
          LET stakeAmount == AccaStake(plan)
              numSelections ==
                  Cardinality(DOMAIN plan.accumulatorData[1].selections)
          IN  IF \/ numSelections < 2
                 \/ stakeAmount <= 0
                 \/ stakeAmount > OrZero(bankroll)
              THEN /\ lastOp' = Op("handlePlaceBet", 0, stakeAmount, <<>>,
                                   "ignored")
                   /\ UNCHANGED <<bankroll, stored, bets, audit, faults>>
              ELSE Placed("handlePlaceBet", plan, stakeAmount,
                          PlaceOutcome(plan, stakeAmount, fail))
    /\ UNCHANGED <<isLoading, uiVars>>

-----------------------------------------------------------------------------
(* Results entry and cashout: MatchResultsEntry.jsx, EnhancedCashout.jsx *)

(* the component mounts: fresh state, then loadUnresolvedBets *)
loadUnresolvedBets ==
    /\ unresolvedBets' = getPlacedUnresolvedBets(bets)
    /\ selectedBet' = 0
    /\ cashoutScenario' = "none"
    /\ selectedBets' = {}
    /\ lastOp' = Op("loadUnresolvedBets", 0, 0, <<>>, "none")
    /\ UNCHANGED <<ledgerVars, bets, betPlan, formMatches, inFlight, audit, faults>>

handleBetSelect ==
    /\ \E id \in unresolvedBets :
          /\ selectedBet' = id
          /\ lastOp' = Op("handleBetSelect", id, 0, <<>>, "none")
    /\ cashoutScenario' = "none"
    /\ selectedBets' = {}
    /\ UNCHANGED <<ledgerVars, bets, betPlan, formMatches, inFlight,
                   unresolvedBets, audit, faults>>

(* What a terminal handler leaves behind.  `update` is the record written  *)
(* to the store (Nil: the handler writes none), `credit` the ledger call   *)
(* made after it (Nil: none is made), `kind` the terminal transition.      *)
Terminal(name, id, amount, results, kind, update, credit, fail) ==
    LET dbFails == update # Nil /\ fail = "bet"
        r == IF dbFails \/ credit = Nil
             THEN Ledger(bankroll, stored, "none")
             ELSE credit[1]
        err == IF dbFails THEN "PersistenceFailure" ELSE r.err
        store == IF dbFails \/ update = Nil THEN bets
                 ELSE [bets EXCEPT ![id] = update[1]]
    IN  /\ bets' = store
        /\ bankroll' = r.bankroll
        /\ stored' = r.stored
        /\ faults' = IF err = "PersistenceFailure" THEN faults + 1 ELSE faults
        /\ lastOp' = Op(name, id, amount, results, err)
        /\ audit' = [audit EXCEPT
                       !.credits[id] = IF r.bankroll # bankroll
                                       THEN Min(@ + 1, MaxCredits) ELSE @,
                       !.terminals[id] = IF dbFails THEN @ ELSE @ \cup {kind}]
        /\ IF err = "none"
           THEN /\ unresolvedBets' = getPlacedUnresolvedBets(store)
                /\ selectedBet' = 0
                /\ cashoutScenario' = "none"
                /\ selectedBets' = {}
           ELSE UNCHANGED <<unresolvedBets, selectedBet, cashoutScenario,
                            selectedBets>>

Ignored(name, id, amount, results) ==
    /\ lastOp' = Op(name, id, amount, results, "ignored")
    /\ UNCHANGED <<ledgerVars, bets, uiVars, audit, faults>>

(* MatchResultsEntry.jsx, lines 66-103 *)
handleSubmitResults ==
    /\ selectedBet # 0
    /\ \E results \in ResultTuples(Len(bets[selectedBet].matches)),
          fail \in FailPoints :
          LET bet == bets[selectedBet]
              isAcca == bet.strategy = "accumulator" /\ bet.accumulatorData # Nil
              net == IF isAcca THEN calculateAccumulatorNet(bet, results)
                     ELSE ActualNet(bet, results)
          IN  IF \E i \in 1..Len(results) : results[i] = "null"
              THEN Ignored("handleSubmitResults", selectedBet, 0, <<>>)
              ELSE /\ net > 0 => OrZero(bankroll) <= MaxBankroll
                   /\ Terminal("handleSubmitResults", selectedBet, net, results,
                               "resolved",
                               IF isAcca THEN Nil
                               ELSE Some(recordMatchResultsUpdate(bet, results)),
                               IF net > 0
                               THEN Some(addWinningsResult(bankroll, stored, net,
                                                           fail = "bankroll"))
                               ELSE Nil,
                               fail)
    /\ UNCHANGED <<isLoading, betPlan, formMatches, inFlight>>

(* MatchResultsEntry.jsx, lines 442-472 *)
handleSubmitResults2 ==
    /\ selectedBet # 0
    /\ \E results \in ResultTuples(Len(bets[selectedBet].matches)),
          fail \in FailPoints :
          LET bet == bets[selectedBet]
              actualNet == ActualNet(bet, results)
          IN  IF \E i \in 1..Len(results) : results[i] = "null"
              THEN Ignored("handleSubmitResults2", selectedBet, 0, <<>>)
              ELSE /\ actualNet > 0 => OrZero(bankroll) <= MaxBankroll
                   /\ Terminal("handleSubmitResults2", selectedBet, actualNet,
                               results, "resolved",
                               Some(recordMatchResultsUpdate(bet, results)),
                               Some(adjustBankrollResult(bankroll, stored,
                                        actualNet, fail = "bankroll")),
                               fail)
    /\ UNCHANGED <<isLoading, betPlan, formMatches, inFlight>>

(* MatchResultsEntry.jsx, lines 477-521 *)
handleCashout ==
    /\ selectedBet # 0
    /\ \E amount \in CashoutAmounts, fail \in FailPoints :
          LET bet == bets[selectedBet]
              netFromCashout == amount - TotalStake(bet)
          IN  IF amount <= 0
              THEN Ignored("handleCashout", selectedBet, amount, <<>>)
              ELSE /\ netFromCashout > 0 => OrZero(bankroll) <= MaxBankroll
                   /\ Terminal("handleCashout", selectedBet, amount, <<>>,
                               "cashed_out",
                               Some(cashoutBetUpdate(bet, amount)),
                               Some(adjustBankrollResult(bankroll, stored,
                                        netFromCashout, fail = "bankroll")),
                               fail)
    /\ UNCHANGED <<isLoading, betPlan, formMatches, inFlight>>

(* EnhancedCashout.jsx handleScenarioSelect *)
handleScenarioSelect ==
    /\ selectedBet # 0
    /\ \E sc \in Scenarios :
          /\ cashoutScenario' = sc.id
          /\ selectedBets' = ScenarioSelection(bets[selectedBet], sc)
          /\ lastOp' = Op("handleScenarioSelect", selectedBet, 0, <<>>, "none")
    /\ UNCHANGED <<ledgerVars, bets, betPlan, formMatches, inFlight,
                   unresolvedBets, selectedBet, audit, faults>>

(* EnhancedCashout.jsx: a checkbox of the custom selection *)
setSelectedBets ==
    /\ selectedBet # 0
    /\ cashoutScenario = "custom"
    /\ \E betId \in IndividualStakes(bets[selectedBet]) :
          selectedBets' = IF betId \in selectedBets
                          THEN selectedBets \ {betId}
                          ELSE selectedBets \cup {betId}
    /\ lastOp' = Op("setSelectedBets", selectedBet, 0, <<>>, "none")
    /\ UNCHANGED <<ledgerVars, bets, betPlan, formMatches, inFlight,
                   unresolvedBets, selectedBet, cashoutScenario, audit, faults>>

(* EnhancedCashout.jsx executeCashout, lines 163-215 *)
executeCashout ==
    /\ selectedBet # 0
    /\ cashoutScenario # "none"
    /\ \E customAmount \in CashoutAmounts, fail \in FailPoints :
          LET bet == bets[selectedBet]
              sc == ScenarioOf(cashoutScenario)
              cashoutAmount == IF sc.partial # 0 THEN customAmount
                               ELSE SelectedValue(bet, selectedBets)
              net == cashoutAmount - TotalStake(bet)
          IN  IF \/ sc.custom /\ selectedBets = {}
                 \/ sc.partial # 0 /\ cashoutAmount <= 0
              THEN Ignored("executeCashout", selectedBet, cashoutAmount, <<>>)
              ELSE /\ net > 0 => OrZero(bankroll) <= MaxBankroll
                   /\ Terminal("executeCashout", selectedBet, cashoutAmount,
                               <<>>, "cashed_out",
                               Some(cashoutBetUpdate(bet, cashoutAmount)),
                               IF net # 0
                               THEN Some(addWinningsResult(bankroll, stored, net,
                                                           fail = "bankroll"))
                               ELSE Nil,
                               fail)
    /\ UNCHANGED <<isLoading, betPlan, formMatches, inFlight>>

-----------------------------------------------------------------------------
(* The application once the provider has loaded the bankroll: placement,   *)
(* and the results tab as the first component of MatchResultsEntry.jsx     *)
(* (with the strategic cashout panel) or as its second component (with the *)
(* basic cashout).                                                         *)

Init ==
    /\ stored \in {Nil} \cup {Some(v) : v \in InitialBalances}
    /\ bankroll = Some(getBankroll(stored))
    /\ isLoading = FALSE
    /\ bets = <<>>
    /\ betPlan = Nil
    /\ unresolvedBets = {}
    /\ selectedBet = 0
    /\ cashoutScenario = "none"
    /\ selectedBets = {}
    /\ formMatches = InitialMatches
    /\ inFlight = <<>>
    /\ lastOp = Op("mount", 0, 0, <<>>, "none")
    /\ audit = NoAudit
    /\ faults = 0

Placement ==
    \/ setBetPlan
    \/ handlePlaceBets
    \/ handlePlacementComplete
    \/ handlePlaceBet

Next ==
    \/ Placement
    \/ loadUnresolvedBets
    \/ handleBetSelect
    \/ handleSubmitResults
    \/ handleScenarioSelect
    \/ setSelectedBets
    \/ executeCashout

NextBasic ==
    \/ Placement
    \/ loadUnresolvedBets
    \/ handleBetSelect
    \/ handleSubmitResults2
    \/ handleCashout

Spec == Init /\ [][Next]_vars

SpecBasic == Init /\ [][NextBasic]_vars

-----------------------------------------------------------------------------
(* The bet history API of db.js on its own: its exported functions are     *)
(* called in any order on any record id.  None of them touches the         *)
(* bankroll.                                                               *)

StorePlans == {PlanA, PlanB}
StoreStatuses == {"undefined", "placed"}

(* updateBetRecord / getFromStore: the only error is an unknown id *)
StoreCall(name, id, amount, results, kind, update) ==
    /\ id \in 1..MaxBets
    /\ IF id > Len(bets)
       THEN /\ lastOp' = Op(name, id, amount, results, "Bet not found")
            /\ UNCHANGED <<bets, audit>>
       ELSE /\ bets' = [bets EXCEPT ![id] = update]
            /\ lastOp' = Op(name, id, amount, results, "none")
            /\ audit' = [audit EXCEPT
                           !.terminals[id] = IF kind = "placed" THEN @
                                             ELSE @ \cup {kind}]
    /\ UNCHANGED <<ledgerVars, uiVars, faults>>

saveBetRecordCall ==
    /\ Len(bets) < MaxBets
    /\ \E plan \in StorePlans, status \in StoreStatuses :
          bets' = Append(bets, saveBetRecord([plan EXCEPT !.status = status]))
    /\ lastOp' = Op("saveBetRecord", Len(bets) + 1, 0, <<>>, "none")
    /\ audit' = [audit EXCEPT !.credits = Append(@, 0),
                              !.terminals = Append(@, {})]
    /\ UNCHANGED <<ledgerVars, uiVars, faults>>

placeBet ==
    \E betId \in 1..MaxBets :
        StoreCall("placeBet", betId, 0, <<>>, "placed",
                  IF betId > Len(bets) THEN Nil
                  ELSE placeBetUpdate(bets[betId]))

cashoutBet ==
    \E betId \in 1..MaxBets, cashoutAmount \in CashoutAmounts :
        StoreCall("cashoutBet", betId, cashoutAmount, <<>>, "cashed_out",
                  IF betId > Len(bets) THEN Nil
                  ELSE cashoutBetUpdate(bets[betId], cashoutAmount))

recordMatchResults ==
    \E betId \in 1..MaxBets :
        \E matchResults \in
              IF betId > Len(bets) THEN {<<>>}
              ELSE [1..Len(bets[betId].matches) -> Results] :
            StoreCall("recordMatchResults", betId,
                      IF betId > Len(bets) THEN 0
                      ELSE ActualNet(bets[betId], matchResults),
                      matchResults, "resolved",
                      IF betId > Len(bets) THEN Nil
                      ELSE recordMatchResultsUpdate(bets[betId], matchResults))

NextStore ==
    \/ saveBetRecordCall
    \/ placeBet
    \/ cashoutBet
    \/ recordMatchResults

SpecStore == Init /\ [][NextStore]_vars

-----------------------------------------------------------------------------
(* Pure functions called on their own.  In these specifications lastOp     *)
(* holds the call: the function, its arguments and the value it returned.  *)

Call(name, args, ret) == [name |-> name, args |-> args, ret |-> ret]

pureVars == <<bankroll, isLoading, stored, bets, betPlan, unresolvedBets,
              selectedBet, cashoutScenario, selectedBets, formMatches, inFlight, audit,
              faults>>

(* the selection codes of SolverForm.jsx and the leg id `${m.id}_${code}`  *)
(* of a match whose id is `M${n}`                                          *)
Codes == {<<"H">>, <<"D">>, <<"A">>, <<"H", "D">>, <<"A", "D">>, <<"H", "A">>}

RECURSIVE Decimal(_)
Decimal(n) ==
    IF n < 10 THEN <<Digits[n + 1]>>
    ELSE Decimal(n \div 10) \o <<Digits[(n % 10) + 1]>>

MatchId(n) == <<"M">> \o Decimal(n)
LegId(matchId, code) == matchId \o <<"_">> \o code

callCheckIfBetWon ==
    /\ \E n \in 1..MaxMatchNo, code \in Codes, result \in Results \cup {"null"} :
          lastOp' = Call("checkIfBetWon", <<LegId(MatchId(n), code), code, result>>,
                         checkIfBetWon(LegId(MatchId(n), code), result))
    /\ UNCHANGED pureVars

callCheckLegWon ==
    /\ \E sel \in Codes, result \in Results \cup {"null"} :
          lastOp' = Call("checkLegWon", <<sel, sel, result>>,
                         checkLegWon(sel, result))
    /\ UNCHANGED pureVars

NextCoverage ==
    \/ callCheckIfBetWon
    \/ callCheckLegWon

SpecCoverage == Init /\ [][NextCoverage]_vars

-----------------------------------------------------------------------------
(* recordMatchResults on records whose legs are built as SolverForm.jsx    *)
(* builds them: a leg is <<n, code>>, its id `M${n}_${code}`.              *)

Legs == (1..Len(<<Match1, Match2>>)) \X Codes
LegSets == { L \in SUBSET Legs : Cardinality(L) \in 1..MaxLegs }
LegStakes == {40, 60}
LegIdOf(leg) == LegId(MatchId(leg[1]), leg[2])

(* the record placed for the legs L with the stakes st *)
LegRecord(L, st) ==
    NewRecord(<<Match1, Match2>>,
              [k \in {LegIdOf(leg) : leg \in L} |->
                  st[CHOOSE leg \in L : LegIdOf(leg) = k]],
              "single", Nil)

callRecordMatchResults ==
    /\ lastOp.name = "mount"
    /\ \E L \in LegSets :
          \E st \in [L -> LegStakes], matchResults \in ResultTuples(2) :
              LET bet == LegRecord(L, st)
              IN  lastOp' = Call("recordMatchResults", <<L, st, matchResults>>,
                                 [net |-> ActualNet(bet, matchResults),
                                  record |-> recordMatchResultsUpdate(bet,
                                                                      matchResults)])
    /\ UNCHANGED pureVars

(* calculateAccumulatorNet on an accumulator over the two matches whose    *)
(* selections are keyed by match index, as AccumulatorBuilder stores them  *)
AccaSelections ==
    UNION { [D -> Codes] : D \in (SUBSET (0..1)) \ {{}} }

AccaRecord(selections) ==
    [PlanB EXCEPT !.accumulatorData =
        Some([selections |-> selections,
              totalOdds |-> PlanB.accumulatorData[1].totalOdds])]

callCalculateAccumulatorNet ==
    /\ lastOp.name = "mount"
    /\ \E selections \in AccaSelections, matchResults \in ResultTuples(2) :
          lastOp' = Call("calculateAccumulatorNet",
                         <<AccaRecord(selections), matchResults>>,
                         calculateAccumulatorNet(AccaRecord(selections),
                                                 matchResults))
    /\ UNCHANGED pureVars

NextSettle ==
    \/ callRecordMatchResults
    \/ callCalculateAccumulatorNet

SpecSettle == Init /\ [][NextSettle]_vars

-----------------------------------------------------------------------------
(* The solver form, SolverForm.jsx: matches are added, removed and given   *)
(* odds, and handleSolve builds the bets sent to the optimizer.  The       *)
(* optimizer is not part of the sources: it answers with a stake for       *)
(* every bet id.                                                           *)

formFrame == <<ledgerVars, bets, betPlan, unresolvedBets, selectedBet,
               cashoutScenario, selectedBets, inFlight, audit, faults>>

OddsFields == {"home", "draw"}
OddsInputs == {2, 3}
SolverStakes == {40, 60}

AllOddsFields == {"home", "draw", "away", "hd", "ad", "ha"}
FieldCode ==
    [home |-> <<"H">>, draw |-> <<"D">>, away |-> <<"A">>,
     hd |-> <<"H", "D">>, ad |-> <<"A", "D">>, ha |-> <<"H", "A">>]
FieldCovered ==
    [home |-> {"H"}, draw |-> {"D"}, away |-> {"A"},
     hd |-> {"H", "D"}, ad |-> {"A", "D"}, ha |-> {"H", "A"}]

addMatch ==
    /\ Len(formMatches) < MaxFormMatches
    /\ formMatches' = Append(formMatches,
                             FormMatch(MatchId(Len(formMatches) + 1)))
    /\ lastOp' = Call("addMatch", <<>>, Nil)
    /\ UNCHANGED formFrame

removeMatch ==
    /\ \E index \in 1..Len(formMatches) :
          formMatches' = SubSeq(formMatches, 1, index - 1)
                           \o SubSeq(formMatches, index + 1, Len(formMatches))
    /\ lastOp' = Call("removeMatch", <<>>, Nil)
    /\ UNCHANGED formFrame

updateMatch ==
    /\ \E i \in 1..Len(formMatches), field \in OddsFields, val \in OddsInputs :
          formMatches' = [formMatches EXCEPT ![i][field] = val]
    /\ lastOp' = Call("updateMatch", <<>>, Nil)
    /\ UNCHANGED formFrame

(* the bets array of handleSolve; match_index is the position in the form *)
FormBets(ms) ==
    { [id |-> LegId(ms[i].id, FieldCode[f]), match_index |-> i - 1,
       covered_results |-> FieldCovered[f], odds |-> ms[i][f]] :
        <<i, f>> \in { x \in (1..Len(ms)) \X AllOddsFields : ms[x[1]][x[2]] # 0 } }

(* validateInputs, the budget being the sum of the stakes handed out *)
validateInputs(ms, budgetNum) ==
    /\ budgetNum > 0
    /\ ~(bankroll # Nil /\ budgetNum > bankroll[1])
    /\ \A i \in 1..Len(ms) : \E f \in AllOddsFields : ms[i][f] > 0
    /\ IF Len(ms) = 1 THEN budgetNum >= 10
       ELSE budgetNum >= 10 * Cardinality(FormBets(ms))

handleSolve ==
    /\ LET formBets == FormBets(formMatches)
           ids == {b.id : b \in formBets}
       IN  \E st \in [ids -> SolverStakes] :
              IF formBets # {} /\ validateInputs(formMatches, SumOver(st, ids))
              THEN lastOp' = Call("handleSolve", <<formBets, st>>,
                                  NewRecord(formMatches, st, "single", Nil))
              ELSE lastOp' = Call("handleSolve", <<>>, Nil)
    /\ UNCHANGED <<formFrame, formMatches>>

NextForm ==
    \/ addMatch
    \/ removeMatch
    \/ updateMatch
    \/ handleSolve

SpecForm == Init /\ [][NextForm]_vars

-----------------------------------------------------------------------------
(* calculateScenarioValue of EnhancedCashout.jsx on the records of solved  *)
(* plans and each scenario of the panel                                    *)

callCalculateScenarioValue ==
    /\ lastOp.name = "mount"
    /\ \E L \in LegSets, sc \in Scenarios :
          \E st \in [L -> LegStakes] :
              lastOp' = Call("calculateScenarioValue", <<L, st, sc>>,
                             calculateScenarioValue(LegRecord(L, st), sc))
    /\ UNCHANGED pureVars

NextValue == callCalculateScenarioValue

SpecValue == Init /\ [][NextValue]_vars

-----------------------------------------------------------------------------
(* Handlers in flight.  A results or cashout handler takes addWinnings     *)
(* from the context of the render it was created in, awaits its record     *)
(* write and only then calls it; adjustBankroll computes the new balance   *)
(* from the `bankroll` of that render.  A placement handler calls          *)
(* deductStake before its first await, on the context of the last render.  *)

Credits == {a \in LedgerAmounts : a > 0}

(* handleSubmitResults / executeCashout up to `await recordMatchResults`   *)
(* / `await cashoutBet`                                                    *)
awaitRecordWrite ==
    /\ Len(inFlight) < MaxInFlight
    /\ OrZero(bankroll) <= MaxBankroll
    /\ \E net \in Credits :
          /\ inFlight' = Append(inFlight, [seen |-> bankroll, net |-> net])
          /\ lastOp' = Op("awaitRecordWrite", 0, net, <<>>, "none")
    /\ UNCHANGED <<ledgerVars, bets, betPlan, unresolvedBets, selectedBet,
                   cashoutScenario, selectedBets, formMatches, audit, faults>>

(* the same handler from `await addWinnings(net)` on *)
resumeAddWinnings ==
    \E i \in 1..Len(inFlight), fail \in FailChoices :
        LET r == addWinningsResult(inFlight[i].seen, stored, inFlight[i].net,
                                   fail)
        IN  /\ bankroll' = r.bankroll
            /\ stored' = r.stored
            /\ faults' = Faults(r)
            /\ lastOp' = Op("resumeAddWinnings", 0, inFlight[i].net, <<>>,
                            r.err)
            /\ inFlight' = SubSeq(inFlight, 1, i - 1)
                             \o SubSeq(inFlight, i + 1, Len(inFlight))
            /\ UNCHANGED <<isLoading, bets, betPlan, unresolvedBets,
                           selectedBet, cashoutScenario, selectedBets,
                           formMatches, audit>>

NextRace ==
    \/ deductStake
    \/ awaitRecordWrite
    \/ resumeAddWinnings

SpecRace == Init /\ [][NextRace]_vars

-----------------------------------------------------------------------------
(* The id-based helpers of db.js on every leg id M{n}_{code}: checkIfBetWon *)
(* and getBetOdds, the latter on records whose matches quote six different *)
(* odds, or none for a field.                                              *)

ProbeMatch == [home |-> 2, draw |-> 3, away |-> 4, hd |-> 5, ad |-> 6, ha |-> 7]
SparseMatch == [home |-> 0, draw |-> 3, away |-> 0, hd |-> 5, ad |-> 0, ha |-> 7]
ProbeMatches == {<<ProbeMatch>>, <<SparseMatch, ProbeMatch>>}

callGetBetOdds ==
    /\ \E n \in 1..MaxMatchNo, code \in Codes, matches \in ProbeMatches :
          lastOp' = Call("getBetOdds",
                         <<matches, LegId(MatchId(n), code), n, code>>,
                         getBetOdds(NewRecord(matches, <<>>, "single", Nil),
                                    LegId(MatchId(n), code)))
    /\ UNCHANGED pureVars

NextIds ==
    \/ callCheckIfBetWon
    \/ callGetBetOdds

SpecIds == Init /\ [][NextIds]_vars

-----------------------------------------------------------------------------
(* A strategic scenario of EnhancedCashout.jsx chosen with                 *)
(* handleScenarioSelect and executed at once: the selection it sets, the   *)
(* amount executeCashout computes from that selection and the value the    *)
(* scenario card shows.                                                    *)

StrategicScenarios == { sc \in Scenarios : ~sc.custom /\ sc.partial = 0 }

callStrategicCashout ==
    /\ lastOp.name = "mount"
    /\ \E L \in LegSets, sc \in StrategicScenarios :
          \E st \in [L -> LegStakes] :
              LET bet == LegRecord(L, st)
                  selected == ScenarioSelection(bet, sc)
              IN  lastOp' = Call("executeCashout", <<L, st, sc>>,
                                 [selectedBets |-> selected,
                                  cashoutAmount |-> SelectedValue(bet, selected),
                                  shown |-> calculateScenarioValue(bet, sc)])
    /\ UNCHANGED pureVars

NextStrategic == callStrategicCashout

SpecStrategic == Init /\ [][NextStrategic]_vars

-----------------------------------------------------------------------------
(* Properties *)

SettleHandlers == {"handleSubmitResults", "handleSubmitResults2"}
CashoutHandlers == {"executeCashout", "handleCashout"}
PlaceHandlers == {"handlePlaceBets", "handlePlaceBet"}

(* C1: a single-strategy bet that is placed and then settled with a        *)
(* complete result tuple leaves the bankroll at (balance before placement) *)
(* - totalStake + grossPayout: the placement step takes exactly the total  *)
(* stake and the settlement step credits the gross payout, the sum of      *)
(* stake * odds over the legs the results cover.                           *)
C1_SettlementCreditsGross ==
    [][ /\ (lastOp'.name \in PlaceHandlers /\ lastOp'.err = "none")
            => bankroll' = Some(OrZero(bankroll) - lastOp'.amount)
        /\ (/\ lastOp'.name \in SettleHandlers
            /\ lastOp'.err = "none"
            /\ bets[lastOp'.bet].strategy = "single")
            => bankroll' = Some(OrZero(bankroll)
                                + GrossPayout(bets[lastOp'.bet], lastOp'.results))
      ]_vars

(* C2: a settlement with no return (the computed net is -totalStake)       *)
(* leaves the bankroll at its post-placement value: the stake is not       *)
(* subtracted a second time.                                               *)
C2_LossLeavesBankroll ==
    [][ (/\ lastOp'.name \in SettleHandlers
         /\ lastOp'.err = "none"
         /\ lastOp'.amount = -TotalStake(bets[lastOp'.bet]))
         => bankroll' = bankroll
      ]_vars

(* C3: a cashout of amount c on a placed bet credits c to the bankroll,    *)
(* also when c is below the total stake.                                   *)
C3_CashoutCreditsAmount ==
    [][ (lastOp'.name \in CashoutHandlers /\ lastOp'.err = "none")
         => bankroll' = Some(OrZero(bankroll) + lastOp'.amount)
      ]_vars

(* C4: deductStake(amount) on a loaded bankroll with balance B is refused  *)
(* for insufficient funds iff amount > B and as invalid iff amount <= 0,   *)
(* the in-memory and the stored balance staying as they were in both       *)
(* cases; otherwise the new balance is exactly B - amount, and it is the   *)
(* stored balance too when the call returns normally.                      *)
C4_DeductStake ==
    [][ (lastOp'.name = "deductStake" /\ bankroll # Nil)
         => LET B == bankroll[1]
                amount == lastOp'.amount
                refused == {"Insufficient bankroll", "Invalid stake amount"}
            IN  /\ (lastOp'.err = "Insufficient bankroll") <=> (amount > B)
                /\ (lastOp'.err = "Invalid stake amount") <=> (amount <= 0)
                /\ lastOp'.err \in refused
                      => bankroll' = bankroll /\ stored' = stored
                /\ lastOp'.err \notin refused => bankroll' = Some(B - amount)
                /\ lastOp'.err = "none" => stored' = Some(B - amount)
      ]_vars

(* a stake of 10.0 on a balance of 5.0 was refused and the balance kept *)
C4_Witness ==
    /\ lastOp.name = "deductStake"
    /\ lastOp.err = "Insufficient bankroll"
    /\ lastOp.amount = 100
    /\ bankroll = Some(50)

(* C5: after any sequence of deductStake, addWinnings, recordResult,       *)
(* adjustBankroll and setBalance from the loaded or default balance, the   *)
(* in-memory balance and the stored balance are >= 0.                      *)
C5_BalanceNonNegative ==
    /\ bankroll = Nil \/ bankroll[1] >= 0
    /\ stored = Nil \/ stored[1] >= 0

(* an adjustment below every reachable balance was clamped to 0 and stored *)
C5_Witness ==
    /\ lastOp.name = "adjustBankroll"
    /\ lastOp.amount = -2000
    /\ lastOp.err = "none"
    /\ bankroll = Some(0)
    /\ stored = Some(0)

(* C6: the status of a stored record changes only along placed ->          *)
(* resolved, placed -> cashed_out (and calculated -> placed), and a record *)
(* whose status is resolved or cashed_out is never changed again.          *)
AllowedTransitions ==
    { <<"calculated", "placed">>, <<"placed", "resolved">>,
      <<"placed", "cashed_out">> }

C6_LifecycleTransitions ==
    [][ \A id \in 1..Len(bets) :
          /\ bets'[id].status # bets[id].status
                => <<bets[id].status, bets'[id].status>> \in AllowedTransitions
          /\ bets[id].status \in {"resolved", "cashed_out"}
                => bets'[id] = bets[id]
      ]_vars

(* C7: for one staged bet plan the stake is deducted at most once and at   *)
(* most one placed record is stored, however often place is invoked.       *)
C7_PlacedAtMostOnce ==
    audit.deducted <= 1 /\ audit.saved <= 1

(* C8: after the results of every match were submitted for a bet (single   *)
(* or accumulator), its stored record is resolved, carries the submitted   *)
(* results and the computed net, and is no longer among the placed         *)
(* unresolved bets.                                                        *)
C8_SubmittedIsResolved ==
    (lastOp.name \in SettleHandlers /\ lastOp.err = "none")
        => LET bet == bets[lastOp.bet]
           IN  /\ bet.status = "resolved"
               /\ bet.resolved
               /\ bet.matchResults = Some(lastOp.results)
               /\ bet.actualNet = Some(lastOp.amount)
               /\ lastOp.bet \notin getPlacedUnresolvedBets(bets)

(* C9: each bet record causes at most one terminal adjustment of the       *)
(* bankroll, and is never both settled and cashed out.                     *)
C9_OneTerminalCredit ==
    \A id \in 1..Len(bets) :
        /\ audit.credits[id] <= 1
        /\ Cardinality(audit.terminals[id]) <= 1

(* C10: a lifecycle transition that fails (stake refused, record write     *)
(* rejected, bankroll write rejected) leaves the bankroll, in memory and   *)
(* stored, and the bet records exactly as before.                          *)
C10_FailureLeavesNoTrace ==
    [][ lastOp'.err # "none"
         => bankroll' = bankroll /\ stored' = stored /\ bets' = bets
      ]_vars

(* C11: a placement stores a record only after the stake was deducted, and *)
(* the record it stores is placed and flagged as applied to the ledger; a  *)
(* stake sum <= 0 or above the balance stores no record and leaves the     *)
(* balance, in memory and stored, as it was.                               *)
C11_PlacedOnlyAfterDeduction ==
    [][ lastOp'.name \in PlaceHandlers
         => /\ Len(bets') > Len(bets)
                  => /\ lastOp'.err = "none"
                     /\ bankroll' = Some(OrZero(bankroll) - lastOp'.amount)
                     /\ bets'[Len(bets')].status = "placed"
                     /\ bets'[Len(bets')].applied
            /\ (lastOp'.amount <= 0 \/ lastOp'.amount > OrZero(bankroll))
                  => bets' = bets /\ bankroll' = bankroll /\ stored' = stored
      ]_vars

(* C12: a leg id M{n}_{code} given to checkIfBetWon, and a code given to   *)
(* checkLegWon, covers a result exactly when the result is one of the      *)
(* letters of the code: H covers {H}, D {D}, A {A}, HD {H,D}, AD {A,D},    *)
(* HA {H,A}; an absent result is covered by no code.                       *)
CoveredResults(code) == {code[i] : i \in 1..Len(code)}

C12_CoverageByCode ==
    lastOp.name \in {"checkIfBetWon", "checkLegWon"}
        => (lastOp.ret <=> lastOp.args[3] \in CoveredResults(lastOp.args[2]))

(* the double chance HD of match 12 was found to cover a draw *)
C12_Witness ==
    /\ lastOp.name = "checkIfBetWon"
    /\ lastOp.args = << <<"M", "1", "2", "_", "H", "D">>, <<"H", "D">>, "D" >>
    /\ lastOp.ret = TRUE

(* C13: recordMatchResults returns, and stores as actualNet, the sum of    *)
(* stake * quoted odds over the legs whose code covers the result of the   *)
(* match numbered in the leg id, minus the sum of all stakes.              *)
QuotedOdds(match, code) ==
    CASE code = <<"H">> -> match.home
      [] code = <<"D">> -> match.draw
      [] code = <<"A">> -> match.away
      [] code = <<"H", "D">> -> match.hd
      [] code = <<"A", "D">> -> match.ad
      [] code = <<"H", "A">> -> match.ha

ExpectedNet(L, st, matchResults) ==
    LET matches == <<Match1, Match2>>
        won == { leg \in L : matchResults[leg[1]] \in CoveredResults(leg[2]) }
    IN  SumOver([leg \in L |-> st[leg] * QuotedOdds(matches[leg[1]], leg[2])], won)
          - SumOver(st, L)

C13_RecordedNet ==
    lastOp.name = "recordMatchResults"
        => LET expected == ExpectedNet(lastOp.args[1], lastOp.args[2],
                                        lastOp.args[3])
           IN  /\ lastOp.ret.net = expected
               /\ lastOp.ret.record.actualNet = Some(expected)
               /\ lastOp.ret.record.matchResults = Some(lastOp.args[3])

(* M1_HD at 6.0 won on a draw and M2_A at 4.0 lost: 6.0 * 1 - 10.0 = -4.0 *)
C13_Witness ==
    /\ lastOp.name = "recordMatchResults"
    /\ lastOp.args[1] = {<<1, <<"H", "D">> >>, <<2, <<"A">> >>}
    /\ lastOp.args[2][<<1, <<"H", "D">> >>] = 60
    /\ lastOp.args[2][<<2, <<"A">> >>] = 40
    /\ lastOp.args[3] = <<"D", "H">>
    /\ lastOp.ret.net = -40

(* C14: for every single-strategy record built by the solver form and      *)
(* every outcome tuple, settling the record with the tuple yields the net  *)
(* the optimizer declares for it: the net computed from the bets' own      *)
(* match_index, covered_results and odds.                                  *)
OptimizerNet(formBets, st, omega) ==
    SumOver([b \in formBets |->
                (IF omega[b.match_index + 1] \in b.covered_results
                 THEN st[b.id] * b.odds ELSE 0) - st[b.id]], formBets)

C14_SettlementMatchesOptimizer ==
    (lastOp.name = "handleSolve" /\ lastOp.ret # Nil)
        => \A omega \in [1..Len(lastOp.ret.matches) -> Results] :
              ActualNet(lastOp.ret, omega)
                = OptimizerNet(lastOp.args[1], lastOp.args[2], omega)

(* C15: calculateAccumulatorNet returns stake * totalOdds - stake iff the  *)
(* selection of every leg covers the result of its match, and -stake       *)
(* otherwise; changing the result of one match so that its selection stops *)
(* covering takes a winning net to -stake.                                 *)
AllLegsCovered(selections, matchResults) ==
    \A idx \in DOMAIN selections :
        matchResults[idx + 1] \in CoveredResults(selections[idx])

C15_AccumulatorAllOrNothing ==
    lastOp.name = "calculateAccumulatorNet"
        => LET bet == lastOp.args[1]
               matchResults == lastOp.args[2]
               selections == bet.accumulatorData[1].selections
               stake == bet.stakes[<<"A", "C", "C", "A">>]
               win == stake * bet.accumulatorData[1].totalOdds - stake
           IN  /\ lastOp.ret = IF AllLegsCovered(selections, matchResults)
                               THEN win ELSE -stake
               /\ lastOp.ret = win
                     => \A idx \in DOMAIN selections :
                          \A r \in Results \ CoveredResults(selections[idx]) :
                              calculateAccumulatorNet(bet,
                                  [matchResults EXCEPT ![idx + 1] = r]) = -stake

(* H on match 1 was covered and A on match 2 was not: the stake is lost *)
C15_Witness ==
    /\ lastOp.name = "calculateAccumulatorNet"
    /\ lastOp.args[1].accumulatorData[1].selections
          = (0 :> <<"H">>) @@ (1 :> <<"A">>)
    /\ lastOp.args[2] = <<"H", "D">>
    /\ lastOp.ret = -100

(* C16: calculateScenarioValue returns, for a strategic scenario, the sum  *)
(* of stake * odds * 0.70 over exactly the legs whose code is in the       *)
(* scenario's cashout subset; for a partial scenario with fraction f, f    *)
(* times that sum over all legs; for the custom scenario, null.  Values    *)
(* are in thousandths: stake (tenths) * odds * 7 * fraction (tenths).      *)
LegValue(L, st, leg) ==
    st[leg] * QuotedOdds(<<Match1, Match2>>[leg[1]], leg[2]) * 7

C16_ScenarioValue ==
    lastOp.name = "calculateScenarioValue"
        => LET L == lastOp.args[1]
               st == lastOp.args[2]
               sc == lastOp.args[3]
               value == [leg \in L |-> LegValue(L, st, leg)]
           IN  IF sc.custom THEN lastOp.ret = Nil
               ELSE IF sc.partial # 0
               THEN lastOp.ret = Some(sc.partial * SumOver(value, L))
               ELSE lastOp.ret
                      = Some(10 * SumOver(value,
                                    {leg \in L : leg[2] \in sc.cashoutBets}))

(* expecting a draw with M1_H 6.0 @2.0 and M1_D 4.0 @3.0: only the home    *)
(* leg is cashed out, 6.0 * 2.0 * 0.70 = 8.4                               *)
C16_Witness ==
    /\ lastOp.name = "calculateScenarioValue"
    /\ lastOp.args[1] = {<<1, <<"H">> >>, <<1, <<"D">> >>}
    /\ lastOp.args[2][<<1, <<"H">> >>] = 60
    /\ lastOp.args[2][<<1, <<"D">> >>] = 40
    /\ lastOp.args[3].id = "expecting_draw"
    /\ lastOp.ret = Some(8400)

(* C17: cashoutBet(bet, amount) stores cashoutAmount = amount, actualNet = *)
(* amount - (sum of all stakes of the bet), which may be negative,         *)
(* resolved = true and status = cashed_out on the record, and changes      *)
(* nothing else of it.                                                     *)
C17_CashoutBetRecord ==
    [][ (lastOp'.name = "cashoutBet" /\ lastOp'.err = "none")
         => LET id == lastOp'.bet
                amount == lastOp'.amount
                net == amount - SumOver(bets[id].stakes, DOMAIN bets[id].stakes)
            IN  /\ bets' = [bets EXCEPT ![id] =
                               [bets[id] EXCEPT !.cashoutAmount = Some(amount),
                                                !.actualNet = Some(net),
                                                !.resolved = TRUE,
                                                !.status = "cashed_out"]]
                /\ bankroll' = bankroll /\ stored' = stored
      ]_vars

(* a cashout of 0 on stakes of 10.0 was stored with a net of -10.0 *)
C17_Witness ==
    /\ lastOp.name = "cashoutBet"
    /\ lastOp.err = "none"
    /\ lastOp.amount = 0
    /\ bets[lastOp.bet].status = "cashed_out"
    /\ bets[lastOp.bet].actualNet = Some(-100)

(* C18: addWinnings(amount) leaves the balance, in memory and stored,      *)
(* unchanged when amount <= 0; when amount > 0 the new balance is exactly  *)
(* B + amount, B the current balance (0 while none is loaded), and that    *)
(* balance is the one stored when the write succeeds.                      *)
C18_AddWinnings ==
    [][ lastOp'.name = "addWinnings"
         => IF lastOp'.amount <= 0
            THEN bankroll' = bankroll /\ stored' = stored /\ lastOp'.err = "none"
            ELSE /\ bankroll' = Some(OrZero(bankroll) + lastOp'.amount)
                 /\ lastOp'.err = "none" => stored' = bankroll'
                 /\ lastOp'.err # "none" => stored' = stored
      ]_vars

(* 45.0 was credited to a balance of 100.0 *)
C18_Witness ==
    /\ lastOp.name = "addWinnings"
    /\ lastOp.amount = 450
    /\ lastOp.err = "none"
    /\ bankroll = Some(DefaultBankroll + 450)
    /\ stored = bankroll

(* C19: a settlement goes through only with a result for every match and   *)
(* on a record in the placed state; with a result missing, or on a record  *)
(* that is not placed (already resolved or cashed out), it is rejected and *)
(* changes neither the records nor the bankroll, in memory or stored.      *)
C19_SettlementRejected ==
    [][ lastOp'.name \in SettleHandlers
         => LET rejected == /\ lastOp'.err # "none"
                            /\ bets' = bets
                            /\ bankroll' = bankroll
                            /\ stored' = stored
            IN  /\ lastOp'.err = "none"
                      => \A i \in 1..Len(lastOp'.results) :
                            lastOp'.results[i] \in Results
                /\ lastOp'.err = "ignored" => rejected
                /\ bets[lastOp'.bet].status # "placed" => rejected
      ]_vars

(* C20: a cashout with an amount >= 0 on a placed record executes (the     *)
(* record becomes cashed_out with that amount) unless a write is rejected  *)
(* by the storage; a cashout with a negative amount, or on a record that   *)
(* is not placed, is rejected and changes neither the records nor the      *)
(* bankroll.  A custom scenario with no leg selected asks for no cashout   *)
(* and is left aside.                                                      *)
C20_CashoutAmountAndState ==
    [][ (/\ lastOp'.name \in CashoutHandlers
         /\ ~(cashoutScenario = "custom" /\ selectedBets = {}))
         => LET id == lastOp'.bet
                amount == lastOp'.amount
            IN  /\ (/\ amount >= 0
                     /\ bets[id].status = "placed"
                     /\ lastOp'.err # "PersistenceFailure")
                      => /\ lastOp'.err = "none"
                         /\ bets'[id].status = "cashed_out"
                         /\ bets'[id].cashoutAmount = Some(amount)
                /\ (amount < 0 \/ bets[id].status # "placed")
                      => /\ lastOp'.err # "none"
                         /\ bets' = bets
                         /\ bankroll' = bankroll
                         /\ stored' = stored
      ]_vars

(* C21: setBalance(value) replaces the balance with max(value, 0) whatever *)
(* the balance was before, loaded or not: it is never refused as invalid   *)
(* or for insufficient funds, and the stored balance is the same value     *)
(* when the write succeeds.                                                *)
C21_SetBalance ==
    [][ lastOp'.name = "setBalance"
         => /\ bankroll' = Some(Max(lastOp'.amount, 0))
            /\ lastOp'.err \in {"none", "PersistenceFailure"}
            /\ lastOp'.err = "none" => stored' = bankroll'
            /\ lastOp'.err # "none" => stored' = stored
      ]_vars

(* the balance was set to -10.0 and is 0 *)
C21_Witness ==
    /\ lastOp.name = "setBalance"
    /\ lastOp.amount = -100
    /\ lastOp.err = "none"
    /\ bankroll = Some(0)
    /\ stored = Some(0)

(* C22: no bankroll update is lost when placements and credits are         *)
(* triggered in quick succession: a credit that is applied raises the      *)
(* balance it finds by exactly its amount, a placement that succeeds       *)
(* lowers the balance it finds by exactly its stake, and a placement whose *)
(* stake exceeds the balance left by the earlier operations is refused.    *)
C22_NoLostUpdate ==
    [][ /\ (lastOp'.name = "resumeAddWinnings" /\ lastOp'.err = "none")
            => bankroll' = Some(OrZero(bankroll) + lastOp'.amount)
        /\ lastOp'.name = "deductStake"
            => /\ lastOp'.err = "none"
                    => bankroll' = Some(OrZero(bankroll) - lastOp'.amount)
               /\ lastOp'.amount > OrZero(bankroll)
                    => lastOp'.err = "Insufficient bankroll"
                         /\ bankroll' = bankroll
      ]_vars

(* C23: addWinnings, recordResult and adjustBankroll never leave the       *)
(* balance lower than they found it, and deductStake never leaves it below *)
(* zero: only deductStake (and the manual setBalance) can reduce it.       *)
C23_OnlyDeductReduces ==
    [][ /\ lastOp'.name \in {"addWinnings", "recordResult", "adjustBankroll"}
            => OrZero(bankroll') >= OrZero(bankroll)
        /\ lastOp'.name = "deductStake" => OrZero(bankroll') >= 0
      ]_vars

(* C24: a load that succeeds sets the balance to the stored one, or to the *)
(* default 100 when nothing is stored; and a bankroll mutation that starts *)
(* with the in-memory balance equal to the persisted one returns, normally *)
(* or with a persistence error, with the two equal again.                  *)
C24_MemoryEqualsPersisted ==
    [][ /\ (lastOp'.name = "loadBankroll" /\ lastOp'.err = "none")
            => bankroll' = Some(getBankroll(stored'))
        /\ (/\ lastOp'.name \in {"adjustBankroll", "setBalance", "deductStake",
                                 "addWinnings", "recordResult"}
            /\ bankroll = Some(getBankroll(stored)))
            => bankroll' = Some(getBankroll(stored'))
      ]_vars

(* C25: in a bet record built by the solver form, after any sequence of    *)
(* addMatch and removeMatch, every leg has the id M{matchIndex+1}_{code},  *)
(* matchIndex being the position of its match in the record's matches, and *)
(* no two legs share an id or a (matchIndex, code) pair.                   *)
C25_LegIdsFollowPositions ==
    (lastOp.name = "handleSolve" /\ lastOp.ret # Nil)
        => LET formBets == lastOp.args[1]
           IN  /\ \A b \in formBets :
                     \E f \in AllOddsFields :
                        /\ b.covered_results = FieldCovered[f]
                        /\ b.id = LegId(MatchId(b.match_index + 1), FieldCode[f])
               /\ \A b1, b2 \in formBets :
                     b1 # b2
                        => /\ b1.id # b2.id
                           /\ <<b1.match_index, b1.covered_results>>
                                 # <<b2.match_index, b2.covered_results>>
               /\ Cardinality(DOMAIN lastOp.ret.stakes) = Cardinality(formBets)

C27_StakesAndMatchesFrozen ==
    [][ /\ Len(bets') >= Len(bets)
        /\ \A id \in 1..Len(bets) :
              /\ bets'[id].stakes = bets[id].stakes
              /\ bets'[id].matches = bets[id].matches
              /\ TotalStake(bets'[id]) = TotalStake(bets[id])
      ]_vars

(* a record settled by recordMatchResults still has the stakes and matches *)
(* of its plan                                                             *)
C27_Witness ==
    /\ lastOp.name = "recordMatchResults"
    /\ lastOp.err = "none"
    /\ bets[lastOp.bet].status = "resolved"
    /\ bets[lastOp.bet].stakes = PlanA.stakes
    /\ bets[lastOp.bet].matches = PlanA.matches
    /\ TotalStake(bets[lastOp.bet]) = 100

(* C28: a bankroll operation called while the bankroll is still loading    *)
(* (in-memory balance null) acts on the balance that is stored, or on the  *)
(* default when none is: a stake above that balance is refused, and an     *)
(* operation that returns normally leaves the stored balance, which the    *)
(* load then shows, at that balance adjusted by the operation, never       *)
(* below 0.                                                                *)
C28_OperationBeforeLoad ==
    [][ (/\ bankroll = Nil
         /\ lastOp'.name \in {"adjustBankroll", "deductStake", "addWinnings",
                              "recordResult"})
         => LET B == getBankroll(stored)
                amount == lastOp'.amount
                delta == IF lastOp'.name = "deductStake" THEN -amount
                         ELSE IF lastOp'.name = "addWinnings" /\ amount <= 0
                         THEN 0 ELSE amount
            IN  /\ (lastOp'.name = "deductStake" /\ amount > B)
                      => lastOp'.err = "Insufficient bankroll"
                /\ (lastOp'.err = "none" /\ delta # 0)
                      => stored' = Some(Max(B + delta, 0))
                /\ (lastOp'.err = "none" /\ delta = 0)
                      => stored' = stored
      ]_vars

(* C29: for every stored bet record, after any sequence of the store       *)
(* operations: resolved is true iff the status is resolved or cashed_out,  *)
(* actualNet is set iff resolved is true, and cashoutAmount is set iff the *)
(* status is cashed_out.                                                   *)
C29_RecordFieldsAgree ==
    \A id \in 1..Len(bets) :
        LET bet == bets[id]
        IN  /\ bet.resolved <=> bet.status \in {"resolved", "cashed_out"}
            /\ bet.actualNet # Nil <=> bet.resolved
            /\ bet.cashoutAmount # Nil <=> bet.status = "cashed_out"

(* C30: for a strategic scenario selected with handleScenarioSelect and    *)
(* executed with the selection unchanged, the legs selected are exactly    *)
(* the legs of the bet whose code is in the scenario's cashout subset, and *)
(* the amount passed to cashoutBet is the value calculateScenarioValue     *)
(* shows for the scenario (amounts in tenths, shown values in              *)
(* thousandths).                                                           *)
C30_ExecutedEqualsShown ==
    lastOp.name = "executeCashout"
        => LET L == lastOp.args[1]
               sc == lastOp.args[3]
           IN  /\ lastOp.ret.selectedBets
                    = { LegIdOf(leg) : leg \in {l \in L : l[2] \in sc.cashoutBets} }
               /\ lastOp.ret.shown # Nil
               /\ 100 * lastOp.ret.cashoutAmount = lastOp.ret.shown[1]

(* expecting_draw on M1_H (6.0 at 2.0) and M1_D (4.0 at 3.0) cashes out    *)
(* the home leg alone for 8.4                                              *)
C30_Witness ==
    /\ lastOp.name = "executeCashout"
    /\ lastOp.args[1] = {<<1, <<"H">> >>, <<1, <<"D">> >>}
    /\ lastOp.args[2][<<1, <<"H">> >>] = 60
    /\ lastOp.args[3].id = "expecting_draw"
    /\ lastOp.ret.selectedBets = {<<"M", "1", "_", "H">>}
    /\ lastOp.ret.cashoutAmount = 84

====
